---- MODULE Spec2Model ----
(***************************************************************************)
(* Model of the item CRUD service: Database (app/db.py) in front of a      *)
(* DynamoDB table and an S3 bucket, driven by the HTTP request handler.    *)
(* Database is translated from src/app/db.py.  The request handler         *)
(* (app/server.py) and S3Bucket (app/s3.py) are not part of the sources at *)
(* hand; they are modelled from sections 4.2 and 4.3 of the specification. *)
(***************************************************************************)
EXTENDS Naturals, Sequences, FiniteSets, TLC

\* ------------------------------------------------------------------ bounds

\* Number of handler threads of the HTTP server that serve requests at once.
NumThreads == 2

Threads == 1 .. NumThreads

\* Number of requests the clients send in one run.
MaxRequests == 3

\* Item ids and the values of the one further field ("name") of an item.
Ids == {"1", "2"}

Names == {"a", "b"}

Methods == {"GET", "POST", "PUT", "DELETE"}

\* ------------------------------------------------------------------ values

\* Python's None: what response.get('Item') gives for a missing row.
None == [absent |-> TRUE]

\* An item: a mapping with the key field id and one further field.
Item(i, n) == [id |-> i, name |-> n]

Items == {Item(i, n) : i \in Ids, n \in Names}

\* No object under a key of the bucket.
NoSuchKey == << >>

\* json.dumps(item): the item as JSON text, here the sequence of its tokens.
JsonDumps(item) == << "{", "id", item.id, "name", item.name, "}" >>

\* json.loads of a stored object body (tests' get_s3_object).
JsonLoads(text) == IF text = NoSuchKey THEN None ELSE Item(text[3], text[5])

\* Outcomes of one call to the table or to the bucket: it returns, it
\* raises a ClientError, or it raises an exception that is not a
\* ClientError (a transport error such as EndpointConnectionError), which
\* except ClientError does not catch.
Outcomes == {"ok", "ClientError", "EndpointConnectionError"}

\* Outcomes of table.load(): the table is there, or a ClientError with the
\* code ResourceNotFoundException, or a ClientError with another code, or
\* an exception that is not a ClientError.
LoadOutcomes ==
  {"ok", "ResourceNotFoundException", "AccessDeniedException",
   "EndpointConnectionError"}

\* Outcomes of the table_exists waiter: the table became ready, or the
\* waiter raised.
WaitOutcomes == {"ok", "WaiterError"}

VARIABLES
  boot,         \* "start" | "ready" | "failed": Database() construction
  loadResult,   \* outcome of table.load() in _create_table ("none" before)
  tableExists,  \* whether the DynamoDB table exists
  table,        \* table rows: id -> item | None
  blob,         \* bucket objects: key -> body | NoSuchKey
  req,          \* per handler thread: the request it serves
  served        \* number of requests received so far

vars == << boot, loadResult, tableExists, table, blob, req, served >>

\* ---------------------------------------------------------------- Database

\* Database._create_table: load the table; on ResourceNotFoundException
\* create it and wait; a ClientError with any other code falls out of the
\* except block without being raised again.  An exception of load() that is
\* not a ClientError, and any exception raised inside the except block,
\* propagates: one of dynamodb.create_table leaves the table as it was, one
\* of the waiter comes after the table has been created.
create_table(exists, load, create, wait) ==
  IF load = "ok"
    THEN [exists |-> exists, raised |-> FALSE]
  ELSE IF load = "ResourceNotFoundException"
    THEN IF create # "ok"
           THEN [exists |-> exists, raised |-> TRUE]
         ELSE IF wait # "ok"
           THEN [exists |-> TRUE, raised |-> TRUE]
         ELSE [exists |-> TRUE, raised |-> FALSE]
  ELSE IF load = "AccessDeniedException"
    THEN [exists |-> exists, raised |-> FALSE]
  ELSE [exists |-> exists, raised |-> TRUE]

\* get_item with the key of the response misspelt: response.get('item').
get_item_WrongKey(tbl, item_id, outcome) ==
  [ret |-> None, printed |-> outcome # "ok", raised |-> "none"]

\* get_item returning the whole response, which is never None.
get_item_ReturnsResponse(tbl, item_id, outcome) ==
  IF outcome = "ok"
    THEN [ret |-> [response |-> tbl[item_id]], printed |-> FALSE,
          raised |-> "none"]
    ELSE [ret |-> None, printed |-> TRUE, raised |-> "none"]

\* get_item without its try/except: the ClientError reaches the caller.
get_item_NoTry(tbl, item_id, outcome) ==
  IF outcome = "ok"
    THEN [ret |-> tbl[item_id], printed |-> FALSE, raised |-> "none"]
    ELSE [ret |-> None, printed |-> FALSE, raised |-> outcome]

\* Database.get_item: the row, or None for a missing row; a ClientError is
\* printed and None is returned; any other exception leaves get_item.
get_item(tbl, item_id, outcome) ==
  IF outcome = "ok"
    THEN [ret |-> tbl[item_id], printed |-> FALSE, raised |-> "none"]
  ELSE IF outcome = "ClientError"
    THEN [ret |-> None, printed |-> TRUE, raised |-> "none"]
  ELSE [ret |-> None, printed |-> FALSE, raised |-> outcome]

\* put_item undoing its write to the table when the mirror write fails.
put_item_Rollback(tbl, item, outcome) ==
  IF outcome = "ok"
    THEN [table |-> [tbl EXCEPT ![item.id] = None], printed |-> FALSE,
          raised |-> "NameError"]
  ELSE IF outcome = "ClientError"
    THEN [table |-> tbl, printed |-> TRUE, raised |-> "none"]
  ELSE [table |-> tbl, printed |-> FALSE, raised |-> outcome]

\* Database.put_item: table.put_item(Item=item), then the arguments of
\* s3.put_object are evaluated; db.py does not import json, so json.dumps
\* raises NameError, which except ClientError does not catch: s3.put_object
\* is never called.  A ClientError of table.put_item is printed; any other
\* exception of table.put_item leaves put_item.
put_item(tbl, item, outcome) ==
  IF outcome = "ok"
    THEN [table |-> [tbl EXCEPT ![item.id] = item], printed |-> FALSE,
          raised |-> "NameError"]
  ELSE IF outcome = "ClientError"
    THEN [table |-> tbl, printed |-> TRUE, raised |-> "none"]
  ELSE [table |-> tbl, printed |-> FALSE, raised |-> outcome]

\* Database.delete_item, first call: table.delete_item(Key={'id': item_id}).
\* A ClientError is printed and skips the call to the bucket; any other
\* exception leaves delete_item.
delete_item_table(tbl, item_id, outcome) ==
  IF outcome = "ok"
    THEN [table |-> [tbl EXCEPT ![item_id] = None], printed |-> FALSE,
          next |-> "del_blob", raised |-> "none"]
  ELSE IF outcome = "ClientError"
    THEN [table |-> tbl, printed |-> TRUE, next |-> "return",
          raised |-> "none"]
  ELSE [table |-> tbl, printed |-> FALSE, next |-> "raise",
        raised |-> outcome]

\* delete_item that leaves the object in the bucket.
delete_item_s3_Skipped(blb, item_id, outcome) ==
  [blob |-> blb, printed |-> outcome = "ClientError",
   raised |-> IF outcome \in {"ok", "ClientError"} THEN "none" ELSE outcome]

\* Database.delete_item, second call: s3.delete_object(item_id).  A
\* ClientError is printed, any other exception leaves delete_item; the row
\* deleted before stays deleted.
delete_item_s3(blb, item_id, outcome) ==
  IF outcome = "ok"
    THEN [blob |-> [blb EXCEPT ![item_id] = NoSuchKey], printed |-> FALSE,
          raised |-> "none"]
  ELSE IF outcome = "ClientError"
    THEN [blob |-> blb, printed |-> TRUE, raised |-> "none"]
  ELSE [blob |-> blb, printed |-> FALSE, raised |-> outcome]

\* ------------------------------------------------------------ the handler

NoBody == [nobody |-> TRUE]

Response(s, b) == [status |-> s, body |-> b]

\* No response is written: the handler died of an exception.
NoResponse == Response(0, NoBody)

NotFound == Response(404, [error |-> "Item not found"])

do_GET(found) == IF found # None THEN Response(200, found) ELSE NotFound

IdMissing == Response(400, [error |-> "Item ID not provided"])

Conflict == Response(409, [error |-> "Item already exists"])

Created == Response(201, [message |-> "Item created"])

Updated == Response(200, [message |-> "Item updated"])

Deleted == Response(200, [message |-> "Item deleted"])

\* The response of a write once db.put_item has returned or raised.
AfterPut(method, raised) ==
  IF raised # "none" THEN NoResponse
  ELSE IF method = "POST" THEN Created ELSE Updated

\* The response of a DELETE once db.delete_item has returned or raised.
AfterDelete(raised) == IF raised # "none" THEN NoResponse ELSE Deleted

Idle ==
  [pc |-> "idle", method |-> "GET", id |-> "", name |-> "",
   printed |-> FALSE, raised |-> "none", getOp |-> "none",
   tableOp |-> "none", blobOp |-> "none", resp |-> NoResponse]

\* ------------------------------------------------------------------- Init

Init ==
  /\ boot = "start"
  /\ loadResult = "none"
  /\ tableExists \in BOOLEAN
  /\ table \in [Ids -> Items \cup {None}]
  /\ \A i \in Ids : table[i] # None => tableExists /\ table[i].id = i
  /\ blob \in [Ids -> {JsonDumps(it) : it \in Items} \cup {NoSuchKey}]
  /\ \A i \in Ids : blob[i] # NoSuchKey => JsonLoads(blob[i]).id = i
  /\ req = [t \in Threads |-> Idle]
  /\ served = 0

\* ---------------------------------------------------------------- actions

\* Database.__init__: _create_table() decides whether the service starts.
Construct ==
  /\ boot = "start"
  /\ \E load \in LoadOutcomes, create \in Outcomes, wait \in WaitOutcomes :
       /\ load = "ok" => tableExists
       /\ load = "ResourceNotFoundException" => ~tableExists
       /\ LET r == create_table(tableExists, load, create, wait) IN
            /\ tableExists' = r.exists
            /\ boot' = IF r.raised THEN "failed" ELSE "ready"
            /\ loadResult' = load
  /\ UNCHANGED << table, blob, req, served >>

\* The handler receives a request.  GET /item/ (no id) is answered 400 at
\* once; every other request goes on to look its id up.
Start(t) ==
  /\ boot = "ready"
  /\ req[t].pc \in {"idle", "done"}
  /\ served < MaxRequests
  /\ served' = served + 1
  /\ \E m \in Methods, i \in Ids \cup {""}, n \in Names :
       /\ i = "" => m = "GET"
       /\ m \in {"GET", "DELETE"} => n = "a"
       /\ req' = [req EXCEPT ![t] =
            IF i = ""
              THEN [Idle EXCEPT !.pc = "done", !.method = m, !.resp = IdMissing]
              ELSE [Idle EXCEPT !.pc = "lookup", !.method = m, !.id = i,
                                !.name = IF m \in {"POST", "PUT"} THEN n ELSE ""]]
  /\ UNCHANGED << boot, loadResult, tableExists, table, blob >>

\* The handler's decision once db.get_item has returned.
Decide(q, found) ==
  CASE q.method = "GET" -> [q EXCEPT !.pc = "done", !.resp = do_GET(found)]
    [] q.method = "POST" ->
         IF found # None THEN [q EXCEPT !.pc = "done", !.resp = Conflict]
                         ELSE [q EXCEPT !.pc = "put_table"]
    [] q.method = "PUT" ->
         IF found = None THEN [q EXCEPT !.pc = "done", !.resp = NotFound]
                         ELSE [q EXCEPT !.pc = "put_table"]
    [] q.method = "DELETE" ->
         IF found = None THEN [q EXCEPT !.pc = "done", !.resp = NotFound]
                         ELSE [q EXCEPT !.pc = "del_table"]

\* A call to the table can succeed only when the table exists.
Possible(outcome) == outcome = "ok" => tableExists

\* db.get_item(id) and the handler's decision on its result.
Lookup(t, outcome) ==
  /\ req[t].pc = "lookup"
  /\ Possible(outcome)
  /\ LET g == get_item(table, req[t].id, outcome)
         r == [req[t] EXCEPT !.printed = g.printed,
                             !.getOp = outcome]
     IN req' = [req EXCEPT ![t] =
                 IF g.raised # "none"
                   THEN [r EXCEPT !.pc = "done", !.raised = g.raised,
                                  !.resp = NoResponse]
                   ELSE Decide(r, g.ret)]
  /\ UNCHANGED << boot, loadResult, tableExists, table, blob, served >>

\* db.put_item(item) of a POST or PUT, and the handler's response.
PutItem(t, outcome) ==
  /\ req[t].pc = "put_table"
  /\ Possible(outcome)
  /\ LET p == put_item(table, Item(req[t].id, req[t].name), outcome) IN
       /\ table' = p.table
       /\ req' = [req EXCEPT ![t] =
            [@ EXCEPT !.pc = "done",
                      !.tableOp = outcome,
                      !.printed = @ \/ p.printed,
                      !.raised = p.raised,
                      !.resp = AfterPut(req[t].method, p.raised)]]
  /\ UNCHANGED << boot, loadResult, tableExists, blob, served >>

\* db.delete_item(id), the call to the table.  On a ClientError
\* delete_item returns and the handler answers; on any other exception
\* the request ends without a response.
DeleteTable(t, outcome) ==
  /\ req[t].pc = "del_table"
  /\ Possible(outcome)
  /\ LET d == delete_item_table(table, req[t].id, outcome) IN
       /\ table' = d.table
       /\ req' = [req EXCEPT ![t] =
            [@ EXCEPT !.pc = IF d.next = "del_blob" THEN "del_blob" ELSE "done",
                      !.tableOp = outcome,
                      !.printed = @ \/ d.printed,
                      !.raised = d.raised,
                      !.resp = IF d.next = "del_blob" THEN NoResponse
                               ELSE AfterDelete(d.raised)]]
  /\ UNCHANGED << boot, loadResult, tableExists, blob, served >>

\* db.delete_item(id), the call to the bucket, and the handler's response.
DeleteBlob(t, outcome) ==
  /\ req[t].pc = "del_blob"
  /\ LET d == delete_item_s3(blob, req[t].id, outcome) IN
       /\ blob' = d.blob
       /\ req' = [req EXCEPT ![t] =
            [@ EXCEPT !.pc = "done",
                      !.blobOp = outcome,
                      !.printed = @ \/ d.printed,
                      !.raised = d.raised,
                      !.resp = AfterDelete(d.raised)]]
  /\ UNCHANGED << boot, loadResult, tableExists, table, served >>

LookupOk(t) == Lookup(t, "ok")

LookupErr(t) == Lookup(t, "ClientError")

LookupRaise(t) == Lookup(t, "EndpointConnectionError")

PutItemOk(t) == PutItem(t, "ok")

PutItemErr(t) == PutItem(t, "ClientError")

PutItemRaise(t) == PutItem(t, "EndpointConnectionError")

DeleteTableOk(t) == DeleteTable(t, "ok")

DeleteTableErr(t) == DeleteTable(t, "ClientError")

DeleteTableRaise(t) == DeleteTable(t, "EndpointConnectionError")

DeleteBlobOk(t) == DeleteBlob(t, "ok")

DeleteBlobErr(t) == DeleteBlob(t, "ClientError")

DeleteBlobRaise(t) == DeleteBlob(t, "EndpointConnectionError")

\* --------------------------------------------------------- specifications

\* Requests served concurrently by all handler threads, backend calls may
\* raise a ClientError or another exception.
Next ==
  \/ Construct
  \/ \E t \in Threads :
       \/ Start(t)
       \/ LookupOk(t)
       \/ LookupErr(t)
       \/ LookupRaise(t)
       \/ PutItemOk(t)
       \/ PutItemErr(t)
       \/ PutItemRaise(t)
       \/ DeleteTableOk(t)
       \/ DeleteTableErr(t)
       \/ DeleteTableRaise(t)
       \/ DeleteBlobOk(t)
       \/ DeleteBlobErr(t)
       \/ DeleteBlobRaise(t)

Spec == Init /\ [][Next]_vars

\* One request at a time (a single client that waits for each response).
NextSeq ==
  \/ Construct
  \/ Start(1)
  \/ LookupOk(1)
  \/ LookupErr(1)
  \/ LookupRaise(1)
  \/ PutItemOk(1)
  \/ PutItemErr(1)
  \/ PutItemRaise(1)
  \/ DeleteTableOk(1)
  \/ DeleteTableErr(1)
  \/ DeleteTableRaise(1)
  \/ DeleteBlobOk(1)
  \/ DeleteBlobErr(1)
  \/ DeleteBlobRaise(1)

SpecSeq == Init /\ [][NextSeq]_vars

\* Two empty stores, and no backend call fails.
InitEmpty ==
  /\ Init
  /\ \A i \in Ids : table[i] = None /\ blob[i] = NoSuchKey

ConstructOk ==
  /\ Construct
  /\ boot' = "ready"
  /\ tableExists'

NextNoFault ==
  \/ ConstructOk
  \/ \E t \in Threads :
       \/ Start(t)
       \/ LookupOk(t)
       \/ PutItemOk(t)
       \/ DeleteTableOk(t)
       \/ DeleteBlobOk(t)

SpecNoFault == InitEmpty /\ [][NextNoFault]_vars

\* ------------------------------------------------------------ properties

\* The item a POST or PUT request carries.
Posted(r) == Item(r.id, r.name)

\* No backend call of the request failed.
NoFault(r) ==
  /\ r.getOp \in {"none", "ok"}
  /\ r.tableOp \in {"none", "ok"}
  /\ r.blobOp \in {"none", "ok"}

\* What the handler answers to a request for id i sent now, when the
\* lookup itself succeeds.
AnswerNow(m, i) ==
  Decide([Idle EXCEPT !.pc = "lookup", !.method = m, !.id = i],
         get_item(table, i, "ok").ret)

\* Thread t takes its lookup step.
LookupStep(t) == req[t].pc = "lookup" /\ req'[t].pc # "lookup"

\* C1: a POST of an item whose id is not stored, with no backend failure,
\* answers 201 'Item created', after which the table and the bucket both
\* hold the posted item under its id and a GET answers 200 with it.
C1_PostCreatesInBothStores ==
  \A t \in Threads :
    LET r == req[t] IN
    (r.pc = "done" /\ r.method = "POST" /\ r.tableOp # "none" /\ NoFault(r))
      => /\ r.resp = Created
         /\ table[r.id] = Posted(r)
         /\ blob[r.id] = JsonDumps(Posted(r))
         /\ AnswerNow("GET", r.id).resp = Response(200, Posted(r))

\* C2: a POST whose id is present in the table (the lookup succeeding) is
\* answered 409 'Item already exists' by its lookup step, which ends the
\* request and leaves the table and the bucket as they were, whatever the
\* posted body is.
C2_DuplicatePostConflicts ==
  [][\A t \in Threads :
       (/\ LookupStep(t)
        /\ req[t].method = "POST"
        /\ table[req[t].id] # None
        /\ req'[t].getOp = "ok")
         => /\ req'[t].pc = "done"
            /\ req'[t].resp = Conflict
            /\ table' = table
            /\ blob' = blob]_vars

C2_Witness ==
  \E t \in Threads :
    /\ req[t].pc = "done" /\ req[t].method = "POST"
    /\ req[t].resp = Conflict
    /\ table[req[t].id] # None
    /\ table[req[t].id] # Posted(req[t])
    /\ blob[req[t].id] # NoSuchKey

\* C3: with one request at a time and no backend failure, a DELETE of an
\* id that is in the table goes on to delete it, is answered 200 'Item
\* deleted', and leaves the id absent from the table and from the bucket,
\* so that a GET and a second DELETE of the id are answered 404.
C3_DeleteRemovesFromBoth ==
  /\ [](\A t \in Threads :
          LET r == req[t] IN
          (r.pc = "done" /\ r.method = "DELETE" /\ r.tableOp # "none"
             /\ NoFault(r))
            => /\ r.resp = Deleted
               /\ table[r.id] = None
               /\ blob[r.id] = NoSuchKey
               /\ AnswerNow("GET", r.id).resp = NotFound
               /\ AnswerNow("DELETE", r.id).pc = "done"
               /\ AnswerNow("DELETE", r.id).resp = NotFound)
  /\ [][\A t \in Threads :
          (/\ LookupStep(t)
           /\ req[t].method = "DELETE"
           /\ table[req[t].id] # None
           /\ req'[t].getOp = "ok")
            => req'[t].pc = "del_table"]_vars

C3_Witness ==
  \E t \in Threads :
    /\ req[t].pc = "done" /\ req[t].method = "DELETE"
    /\ req[t].tableOp = "ok" /\ req[t].blobOp = "ok"
    /\ req[t].resp = Deleted
    /\ \E j \in Ids : j # req[t].id /\ table[j] # None /\ blob[j] # NoSuchKey

\* C4: the lookup step of a PUT or DELETE whose id is not in the table
\* ends the request and changes neither the table nor the bucket, and when
\* db.get_item returns (the call succeeds or raises a ClientError) the
\* answer is 404 'Item not found'; the receipt of the request changes
\* neither store either.
C4_MissingTargetNotFound ==
  [][\A t \in Threads :
       /\ (/\ LookupStep(t)
           /\ req[t].method \in {"PUT", "DELETE"}
           /\ table[req[t].id] = None)
            => /\ req'[t].pc = "done"
               /\ req'[t].getOp \in {"ok", "ClientError"}
                    => req'[t].resp = NotFound
               /\ table' = table
               /\ blob' = blob
       /\ (req[t].pc \in {"idle", "done"} /\ req'[t].pc = "lookup")
            => table' = table /\ blob' = blob]_vars

C4_Witness ==
  \E t \in Threads :
    /\ req[t].pc = "done" /\ req[t].method = "PUT"
    /\ req[t].getOp = "ok"
    /\ req[t].resp = NotFound
    /\ table[req[t].id] = None
    /\ blob[req[t].id] = NoSuchKey
    /\ \E j \in Ids : table[j] # None /\ blob[j] # NoSuchKey

\* C5: a PUT whose id is in the table, with no backend failure, answers 200
\* 'Item updated', after which the table and the bucket both hold exactly
\* the new item under that id.
C5_PutOverwritesBothStores ==
  \A t \in Threads :
    LET r == req[t] IN
    (r.pc = "done" /\ r.method = "PUT" /\ r.tableOp # "none" /\ NoFault(r))
      => /\ r.resp = Updated
         /\ table[r.id] = Posted(r)
         /\ blob[r.id] = JsonDumps(Posted(r))
         /\ AnswerNow("GET", r.id).resp = Response(200, Posted(r))

\* C6: when table.load() fails with an error other than 'not found',
\* construction fails; a table is created only after 'not found'.
C6_LoadErrorIsFatal ==
  /\ loadResult \notin {"none", "ok", "ResourceNotFoundException"}
       => boot = "failed"
  /\ (boot = "ready" /\ loadResult = "ResourceNotFoundException")
       => tableExists

\* C7: from two empty stores and with no backend failure, whenever no
\* request is in flight an id is in the table exactly if an object with
\* that key is in the bucket, and the two hold the same field values.
C7_MirrorInvariant ==
  (\A t \in Threads : req[t].pc \in {"idle", "done"})
    => \A i \in Ids :
         /\ table[i] # None <=> blob[i] # NoSuchKey
         /\ table[i] # None => JsonLoads(blob[i]) = table[i]

\* C8: two POSTs of the same new id that both passed the existence check
\* and both wrote the table are both answered 201 'Item created'.
C8_RacingPostsBothCreated ==
  \A t1, t2 \in Threads :
    (/\ t1 # t2
     /\ req[t1].pc = "done" /\ req[t2].pc = "done"
     /\ req[t1].method = "POST" /\ req[t2].method = "POST"
     /\ req[t1].id = req[t2].id
     /\ req[t1].tableOp = "ok" /\ req[t2].tableOp = "ok")
      => req[t1].resp = Created /\ req[t2].resp = Created

\* The race itself: both POSTs of one id are past the existence check
\* before either has written.
C8_Witness ==
  \E t1, t2 \in Threads :
    /\ t1 # t2
    /\ req[t1].pc = "put_table" /\ req[t2].pc = "put_table"
    /\ req[t1].method = "POST" /\ req[t2].method = "POST"
    /\ req[t1].id = req[t2].id

\* C9: within a write or delete request the bucket is called only after
\* the table has been; a step in which no call to the bucket succeeds
\* leaves the bucket as it is, the step in which the call to the bucket
\* fails leaves the table as it is, and (one request at a time) a request
\* whose table call succeeded and whose bucket call did not ends with its
\* change in the table.
C9_TableFirstNoRollback ==
  /\ [](\A t \in Threads :
          LET r == req[t] IN
          /\ r.blobOp # "none" => r.tableOp = "ok"
          /\ (r.pc = "done" /\ r.tableOp = "ok" /\ r.blobOp # "ok")
               => table[r.id] = IF r.method = "DELETE" THEN None
                                ELSE Posted(r))
  /\ [][/\ (\A t \in Threads : req'[t].blobOp = req[t].blobOp
                                \/ req'[t].blobOp # "ok")
             => blob' = blob
        /\ \A t \in Threads :
             (req[t].blobOp = "none" /\ req'[t].blobOp \notin {"none", "ok"})
               => table' = table /\ req'[t].pc = "done"]_vars

C9_Witness ==
  \E t \in Threads :
    /\ req[t].pc = "done" /\ req[t].method = "DELETE"
    /\ req[t].tableOp = "ok" /\ req[t].blobOp = "ClientError"
    /\ table[req[t].id] = None
    /\ blob[req[t].id] # NoSuchKey

\* C10 as stated: a lookup that fails with any client or transport error
\* raises nothing, prints the message and changes neither store, and a
\* GET, PUT or DELETE is then answered 404 'Item not found'.
C10_AnyLookupErrorIsNotFound ==
  [][\A t \in Threads :
       (LookupStep(t) /\ req'[t].getOp # "ok")
         => /\ req'[t].raised = "none"
            /\ req'[t].printed
            /\ table' = table
            /\ blob' = blob
            /\ req[t].method \in {"GET", "PUT", "DELETE"}
                 => req'[t].pc = "done" /\ req'[t].resp = NotFound]_vars

\* C10 amended: a lookup that fails with a ClientError raises nothing,
\* prints the message and changes neither store, and a GET, PUT or DELETE
\* is then answered 404 'Item not found', also when the id is stored; a
\* lookup that fails with an exception that is not a ClientError raises
\* it, prints nothing, changes neither store and ends the request without
\* a response.
C10_ClientErrorIsNotFound ==
  [][\A t \in Threads :
       /\ (LookupStep(t) /\ req'[t].getOp = "ClientError")
            => /\ req'[t].raised = "none"
               /\ req'[t].printed
               /\ table' = table
               /\ blob' = blob
               /\ req[t].method \in {"GET", "PUT", "DELETE"}
                    => req'[t].pc = "done" /\ req'[t].resp = NotFound
       /\ (LookupStep(t) /\ req'[t].getOp \notin {"ok", "ClientError"})
            => /\ req'[t].raised = req'[t].getOp
               /\ ~req'[t].printed
               /\ table' = table
               /\ blob' = blob
               /\ req'[t].pc = "done"
               /\ req'[t].resp = NoResponse]_vars

C10_Witness ==
  \E t \in Threads :
    /\ req[t].pc = "done" /\ req[t].method = "GET"
    /\ req[t].getOp = "ClientError"
    /\ req[t].resp = NotFound
    /\ table[req[t].id] # None

====
